---- MODULE Spec2Model ----
(***************************************************************************)
(* A model of gprofiler/merge.py: the collapsed-stack parsers, the sample  *)
(* scaler, and the merge -> concatenate pipeline with its per-process      *)
(* enrichment.                                                             *)
(*                                                                         *)
(* Conventions.                                                            *)
(*  - A Python str is a sequence of one-character strings ("a;b" is        *)
(*    <<"a", ";", "b">>); a rendered token such as "appid: app" is one     *)
(*    element.                                                             *)
(*  - A Counter / dict is a function whose DOMAIN is its key set.          *)
(*    Insertion order is not kept; loops over a dict take the keys in any  *)
(*    order, which covers every insertion order.                           *)
(*  - Optional[x] is a sequence: <<>> for None, <<x>> for a value.         *)
(*  - The float ratio a / b is the pair <<a, b>>; products with it are     *)
(*    computed exactly (floor and ceil of count * a / b).                  *)
(***************************************************************************)
EXTENDS Integers, Sequences, FiniteSets, TLC

VARIABLES
    \* scale_sample_counts called on its own
    sc_stacks, sc_ratio, sc_result, sc_pc,
    \* parse_one_collapsed on A, B and A + B
    po_a, po_b, po_comm, po_res_a, po_res_b, po_res_ab, po_pc,
    \* parse_many_collapsed
    pm_text, pm_results, pm_bad_lines, pm_pc,
    \* merge_profiles / concatenate_profiles
    perf_pid_to_profiles, process_profiles, enrichment_options, container_names_client,
    application_metadata, lines, header, enriched, visited, ratio, client_calls,
    result, pc,
    \* the arguments as they were passed (history)
    perf0, process0

scale_vars == <<sc_stacks, sc_ratio, sc_result, sc_pc>>
one_vars == <<po_a, po_b, po_comm, po_res_a, po_res_b, po_res_ab, po_pc>>
many_vars == <<pm_text, pm_results, pm_bad_lines, pm_pc>>
pipe_vars == <<perf_pid_to_profiles, process_profiles, enrichment_options, container_names_client,
               application_metadata, lines, header, enriched, visited, ratio, client_calls,
               result, pc, perf0, process0>>
vars == <<scale_vars, one_vars, many_vars, pipe_vars>>

(***************************************************************************)
(* Bounds                                                                  *)
(***************************************************************************)
\* largest sample count of an input mapping
MaxCount == 2
\* largest numerator of a ratio passed to scale_sample_counts directly
MaxNum == 3
\* largest denominator of a ratio passed to scale_sample_counts directly
MaxDen == 3
\* longest texts (in characters) A and B handed to parse_one_collapsed
MaxLenA == 3
MaxLenB == 2
\* most lines of a text handed to parse_many_collapsed
MaxLines == 2
\* largest sample count of a stack in the profiles handed to merge_profiles
MaxSamples == 2

(***************************************************************************)
(* Mappings (Counter / dict)                                               *)
(***************************************************************************)
EmptyMap == [k \in {} |-> 0]

RECURSIVE SumOver(_, _)
SumOver(m, keys) ==
    IF keys = {} THEN 0
    ELSE LET k == CHOOSE x \in keys : TRUE
         IN  m[k] + SumOver(m, keys \ {k})

\* sum(stacks.values())
Total(m) == SumOver(m, DOMAIN m)

\* all mappings with keys among `keys` and values in `vals`
Mappings(keys, vals) == UNION {[d -> vals] : d \in SUBSET keys}

\* Counter's  c[key] += n  (a missing key reads as 0)
CounterAdd(c, key, n) ==
    [k \in DOMAIN c \cup {key} |->
        (IF k \in DOMAIN c THEN c[k] ELSE 0) + (IF k = key THEN n ELSE 0)]

(***************************************************************************)
(* scale_sample_counts                                                     *)
(***************************************************************************)
Floor(num, den) == num \div den
Ceil(num, den) == (num + den - 1) \div den

\* variant: the ceiling taken as floor + 1, also for a whole new_count
ScaledValueFloorPlusOne(count, r, up) ==
    IF up THEN Floor(count * r[1], r[2]) + 1 ELSE Floor(count * r[1], r[2])

\* One stack of the loop: new_count = count * ratio, rounded up when the draw
\* random.random() <= frac(new_count) succeeds, down otherwise.  `up` is the
\* outcome of that comparison: random() ranges over [0, 1) and frac over [0, 1),
\* so either outcome can occur for any new_count (up with frac = 0 is the draw 0.0,
\* and then ceil = floor).
ScaledValue(count, r, up) ==
    IF up THEN Ceil(count * r[1], r[2]) ELSE Floor(count * r[1], r[2])

\* variant: without the "if scaled_value != 0" filter
ScaleSampleCountsKeepZero(stacks, r, ups) ==
    IF r[1] = r[2]
    THEN stacks
    ELSE [s \in DOMAIN stacks |-> ScaledValue(stacks[s], r, ups[s])]

ScaleSampleCounts(stacks, r, ups) ==
    IF r[1] = r[2]
    THEN stacks
    ELSE LET kept == {s \in DOMAIN stacks : ScaledValue(stacks[s], r, ups[s]) # 0}
         IN  [s \in kept |-> ScaledValue(stacks[s], r, ups[s])]

(***************************************************************************)
(* str helpers                                                             *)
(***************************************************************************)
Digits == {"0", "1", "2", "3", "4", "5", "6", "7", "8", "9"}
DigitVal == ("0" :> 0) @@ ("1" :> 1) @@ ("2" :> 2) @@ ("3" :> 3) @@ ("4" :> 4) @@
            ("5" :> 5) @@ ("6" :> 6) @@ ("7" :> 7) @@ ("8" :> 8) @@ ("9" :> 9)
\* the characters str.strip() and int() drop at both ends (those a line can hold)
WhiteSpace == {" ", "\t"}

SetMax(S) == CHOOSE x \in S : \A y \in S : y <= x
SetMin(S) == CHOOSE x \in S : \A y \in S : x <= y

Positions(s, c) == {i \in 1..Len(s) : s[i] = c}

\* s.strip()
Strip(s) ==
    LET solid == {i \in 1..Len(s) : s[i] \notin WhiteSpace}
    IN  IF solid = {} THEN <<>> ELSE SubSeq(s, SetMin(solid), SetMax(solid))

\* s.startswith(c) for a one-character c
StartsWith(s, c) == Len(s) > 0 /\ s[1] = c

\* str.splitlines() for the line break "\n": no empty last line after a final break
RECURSIVE SplitLines(_)
SplitLines(t) ==
    IF t = <<>> THEN <<>>
    ELSE LET brk == Positions(t, "\n")
         IN  IF brk = {} THEN <<t>>
             ELSE LET i == SetMin(brk)
                  IN  <<SubSeq(t, 1, i - 1)>> \o SplitLines(SubSeq(t, i + 1, Len(t)))

\* s.rpartition(c): <<before, sep, after>> around the last c, <<"", "", s>> without one
RPartition(s, c) ==
    LET at == Positions(s, c)
    IN  IF at = {} THEN <<<<>>, <<>>, s>>
        ELSE <<SubSeq(s, 1, SetMax(at) - 1), <<c>>, SubSeq(s, SetMax(at) + 1, Len(s))>>

\* s.rsplit(c, maxsplit=1): one or two parts
RSplit1(s, c) ==
    LET at == Positions(s, c)
    IN  IF at = {} THEN <<s>>
        ELSE <<SubSeq(s, 1, SetMax(at) - 1), SubSeq(s, SetMax(at) + 1, Len(s))>>

\* s.split(c, maxsplit=1): one or two parts
Split1(s, c) ==
    LET at == Positions(s, c)
    IN  IF at = {} THEN <<s>>
        ELSE <<SubSeq(s, 1, SetMin(at) - 1), SubSeq(s, SetMin(at) + 1, Len(s))>>

\* s.split(c)[0]
SplitHead(s, c) == Split1(s, c)[1]

\* int(s): surrounding whitespace dropped, an optional sign, then decimal digits
\* (the "_" digit separator is not modelled).  IsInt is "int(s) does not raise".
Unsigned(s) ==
    LET t == Strip(s)
    IN  IF Len(t) > 0 /\ t[1] \in {"+", "-"} THEN Tail(t) ELSE t

IsInt(s) == Unsigned(s) # <<>> /\ \A i \in 1..Len(Unsigned(s)) : Unsigned(s)[i] \in Digits

RECURSIVE DecimalValue(_)
DecimalValue(ds) ==
    IF ds = <<>> THEN 0
    ELSE 10 * DecimalValue(SubSeq(ds, 1, Len(ds) - 1)) + DigitVal[ds[Len(ds)]]

IntOf(s) ==
    IF StartsWith(Strip(s), "-") THEN 0 - DecimalValue(Unsigned(s)) ELSE DecimalValue(Unsigned(s))

\* str(n) for n >= 0, as in f"{idx}"
DigitChar(d) == CHOOSE c \in Digits : DigitVal[c] = d

RECURSIVE Decimal(_)
Decimal(n) ==
    IF n < 10 THEN <<DigitChar(n)>> ELSE Decimal(n \div 10) \o <<DigitChar(n % 10)>>

(***************************************************************************)
(* parse_one_collapsed                                                     *)
(***************************************************************************)
\* variant: the count is stored, not added
ParseOneLineOverwrite(stacks, line, add_comm) ==
    IF Strip(line) = <<>> THEN stacks
    ELSE IF StartsWith(line, "#") THEN stacks
    ELSE LET parts == RPartition(line, " ")
             key   == IF add_comm # <<>> THEN add_comm[1] \o <<";">> \o parts[1] ELSE parts[1]
         IN  IF IsInt(parts[3])
             THEN [k \in DOMAIN stacks \cup {key} |->
                     IF k = key THEN IntOf(parts[3]) ELSE stacks[k]]
             ELSE stacks

\* One iteration of the loop over collapsed.splitlines().
ParseOneLine(stacks, line, add_comm) ==
    IF Strip(line) = <<>> THEN stacks
    ELSE IF StartsWith(line, "#") THEN stacks
    ELSE LET parts == RPartition(line, " ")
             stack == parts[1]
             count == parts[3]
             key   == IF add_comm # <<>> THEN add_comm[1] \o <<";">> \o stack ELSE stack
         IN  IF IsInt(count)
             THEN CounterAdd(stacks, key, IntOf(count))
             ELSE stacks      \* int() raised: logged, the line is skipped

RECURSIVE ParseOneLines(_, _, _)
ParseOneLines(stacks, ls, add_comm) ==
    IF ls = <<>> THEN stacks
    ELSE ParseOneLines(ParseOneLine(stacks, Head(ls), add_comm), Tail(ls), add_comm)

ParseOneCollapsed(collapsed, add_comm) ==
    ParseOneLines(EmptyMap, SplitLines(collapsed), add_comm)

(***************************************************************************)
(* parse_many_collapsed                                                    *)
(***************************************************************************)
\* One iteration of the loop; st is [results, bad_lines].  The statement
\*     results[pid][f"{comm};{stack}"] += int(count)
\* evaluates results[pid] first, and results is a defaultdict(Counter): the pid is
\* inserted with an empty Counter before int(count) is evaluated and possibly raises.
ParseManyLine(st, line) ==
    LET bad == [st EXCEPT !.bad_lines = Append(@, line)]
        p1  == RSplit1(line, " ")
    IN  IF Len(p1) < 2 THEN bad
        ELSE LET count == p1[2]
                 p2    == Split1(p1[1], ";")
             IN  IF Len(p2) < 2 THEN bad
                 ELSE LET stack == p2[2]
                          p3    == RSplit1(p2[1], "-")
                      IN  IF Len(p3) < 2 THEN bad
                          ELSE LET comm    == p3[1]
                                   pid_str == SplitHead(p3[2], "/")
                               IN  IF ~IsInt(pid_str) THEN bad
                                   ELSE LET pid  == IntOf(pid_str)
                                            key  == comm \o <<";">> \o stack
                                            cur  == IF pid \in DOMAIN st.results
                                                    THEN st.results[pid] ELSE EmptyMap
                                            with == [q \in DOMAIN st.results \cup {pid} |->
                                                       IF q = pid THEN cur ELSE st.results[q]]
                                        IN  IF ~IsInt(count)
                                            THEN [bad EXCEPT !.results = with]
                                            ELSE [st EXCEPT !.results =
                                                    [q \in DOMAIN with |->
                                                       IF q = pid
                                                       THEN CounterAdd(cur, key, IntOf(count))
                                                       ELSE with[q]]]

RECURSIVE ParseManyLines(_, _)
ParseManyLines(st, ls) ==
    IF ls = <<>> THEN st
    ELSE ParseManyLines(ParseManyLine(st, Head(ls)), Tail(ls))

\* [results, bad_lines] at the return; bad_lines only feeds the warning
ParseManyCollapsed(text) ==
    ParseManyLines([results |-> EmptyMap, bad_lines |-> <<>>], SplitLines(text))

(***************************************************************************)
(* Collaborators of merge.py that live outside it                          *)
(***************************************************************************)
\* "no metadata" (None) and metadata documents (dicts, as sets of <<key, value>>)
NoMetadata == {<<"None">>}

\* ProfilingErrorStack.is_error_stack: the mapping is made of error-marker stacks,
\* those whose first frame is the reserved frame "E"
IsErrorStack(stacks) ==
    /\ DOMAIN stacks # {}
    /\ \A k \in DOMAIN stacks : SplitHead(k, ";") = <<"E">>

\* ProfilingErrorStack.attach_error_to_stacks: one entry per (error stack,
\* reference stack) pair, keyed error;reference, with the reference stack's count
AttachErrorToStacks(source_stacks, error_stack) ==
    LET pairs  == (DOMAIN error_stack) \X (DOMAIN source_stacks)
        key(p) == p[1] \o <<";">> \o p[2]
    IN  [k \in {key(p) : p \in pairs} |->
            source_stacks[(CHOOSE p \in pairs : key(p) = k)[2]]]

\* ContainerNamesClient.get_container_name(pid): some name, possibly ""
ContainerNameOf(pid) == IF pid = 1 THEN <<"k">> ELSE <<>>

(***************************************************************************)
(* merge_profiles: one iteration of the loop over process_profiles         *)
(***************************************************************************)
\* variant: a process perf has no profile for counts as one sample
PerfSamplesCountDefaultOne(perf, pid) ==
    IF pid \in DOMAIN perf THEN Total(perf[pid].stacks) ELSE 1

\* perf_pid_to_profiles.get(pid) and the samples perf has for the process
PerfSamplesCount(perf, pid) ==
    IF pid \in DOMAIN perf THEN Total(perf[pid].stacks) ELSE 0

\* variant: the assertion lets a total of zero pass
AssertSamplesNonNegative(profile_samples_count) == profile_samples_count >= 0

\* assert profile_samples_count > 0
AssertSamples(profile_samples_count) == profile_samples_count > 0

\* variant: the branch is taken whatever perf's sample count is
UseErrorAttachAnyTotal(has_perf, perf_samples_count, stacks) ==
    has_perf /\ IsErrorStack(stacks)

\* the condition of the error-attach branch
UseErrorAttach(has_perf, perf_samples_count, stacks) ==
    has_perf /\ perf_samples_count > 0 /\ IsErrorStack(stacks)

\* The body of the loop for a pid whose candidate mapping is not empty.  `ups` are
\* the outcomes of the scaler's draws.  The outcome is "ok", or the exception that
\* ends merge_profiles.
MergeOne(perf, procs, pid, ups) ==
    LET profile  == procs[pid]
        has_perf == pid \in DOMAIN perf
        perf_samples_count    == PerfSamplesCount(perf, pid)
        profile_samples_count == Total(profile.stacks)
        raised(e) == [outcome |-> e, perf |-> perf, procs |-> procs, ratio |-> <<>>]
        stored(stacks, r) ==
            LET np == [profile EXCEPT !.stacks = stacks]
            IN  [outcome |-> "ok",
                 perf    |-> [q \in DOMAIN perf \cup {pid} |-> IF q = pid THEN np ELSE perf[q]],
                 procs   |-> [procs EXCEPT ![pid] = np],
                 ratio   |-> r]
    IN  IF ~AssertSamples(profile_samples_count) THEN raised("AssertionError")
        ELSE IF UseErrorAttach(has_perf, perf_samples_count, profile.stacks)
        THEN stored(AttachErrorToStacks(perf[pid].stacks, profile.stacks), <<>>)
        ELSE IF profile_samples_count = 0 THEN raised("ZeroDivisionError")
        ELSE LET r == <<perf_samples_count, profile_samples_count>>
             IN  stored(ScaleSampleCounts(profile.stacks, r, ups), <<r>>)

(***************************************************************************)
(* _enrich_pid_stacks, _enrich_and_finalize_stack, _make_profile_metadata  *)
(***************************************************************************)
InTable(table, doc) == \E i \in 1..Len(table) : table[i] = doc

\* list.index: the first position holding an equal entry, counted from 0
IndexOf(table, doc) == SetMin({i \in 1..Len(table) : table[i] = doc}) - 1

\* variant: the document is appended without the membership test
TableWithAppend(table, app_metadata) == Append(table, app_metadata)

\* the table after the "not in -> append" of _enrich_pid_stacks
TableWith(table, app_metadata) ==
    IF InTable(table, app_metadata) THEN table ELSE Append(table, app_metadata)

\* variant: the protocol version is not looked at
EmitApplicationPrefixAnyVersion(options) == options.application_metadata

\* whether the application-metadata frame is included
EmitApplicationPrefix(options) ==
    options.profile_api_version # "v1" /\ options.application_metadata

\* _get_container_name: whether the client is asked
LooksUpContainer(options, has_client) == options.container_names /\ has_client

\* [data: PidStackEnrichment, table: the table after the call, calls: the calls
\*  made on the container-names client]
EnrichPidStacks(pid, profile, options, has_client, table) ==
    LET appid == IF profile.appid # <<>>
                 THEN <<(<<"appid: ">> \o profile.appid[1])>> ELSE <<>>
        table2 == TableWith(table, profile.app_metadata)
        idx    == IndexOf(table2, profile.app_metadata)
        application_prefix ==
            IF EmitApplicationPrefix(options) THEN Decimal(idx) \o <<";">> ELSE <<>>
        asks == options.profile_api_version # "v1" /\ LooksUpContainer(options, has_client)
        container_prefix ==
            IF options.profile_api_version # "v1"
            THEN (IF asks THEN ContainerNameOf(pid) ELSE <<>>) \o <<";">>
            ELSE <<>>
    IN  [data  |-> [appid |-> appid, application_prefix |-> application_prefix,
                    container_prefix |-> container_prefix],
         table |-> table2,
         calls |-> IF asks THEN <<(<<"get_container_name", pid>>)>> ELSE <<>>]

EnrichAndFinalizeStack(stack, count, options, enrich_data) ==
    LET parts == Split1(stack, ";")
        spliced ==
            IF options.application_identifiers /\ enrich_data.appid # <<>>
            THEN IF Len(parts) = 2
                 THEN parts[1] \o <<";">> \o enrich_data.appid[1] \o <<";">> \o parts[2]
                 ELSE stack \o <<";">> \o enrich_data.appid[1]
            ELSE stack
    IN  enrich_data.application_prefix \o enrich_data.container_prefix \o spliced
            \o <<" ">> \o Decimal(count)

\* the lines of one process, one per stack of its mapping; `pid` tags each line
\* with the process it was written for
RECURSIVE FinalizedLines(_, _, _, _, _)
FinalizedLines(pid, stacks, keys, options, enrich_data) ==
    IF keys = {} THEN <<>>
    ELSE LET k == CHOOSE x \in keys : TRUE
         IN  <<[pid |-> pid,
                text |-> EnrichAndFinalizeStack(k, stacks[k], options, enrich_data)]>>
             \o FinalizedLines(pid, stacks, keys \ {k}, options, enrich_data)

\* variant: the cache is reset whenever there is a client
ResetsCacheWithClient(has_client, add_container_names) == has_client

\* whether _make_profile_metadata reads the names and resets the client's cache
ResetsCache(has_client, add_container_names) == has_client /\ add_container_names

\* [header: the decoded header line (run metadata and metrics left out),
\*  calls: the calls made on the container-names client]
MakeProfileMetadata(has_client, add_container_names, table, application_metadata_enabled, calls) ==
    LET enabled == ResetsCache(has_client, add_container_names)
        names   == {c[2] : c \in {calls[i] : i \in 1..Len(calls)}}
    IN  [header |-> [containers |-> IF enabled
                                    THEN {ContainerNameOf(q) : q \in names} \ {<<>>}
                                    ELSE {},
                     container_names_enabled |-> enabled,
                     application_metadata |-> table,
                     application_metadata_enabled |-> application_metadata_enabled],
         calls  |-> IF enabled
                    THEN <<(<<"container_names", 0>>), (<<"reset_cache", 0>>)>>
                    ELSE <<>>]

(***************************************************************************)
(* Inputs                                                                  *)
(***************************************************************************)
\* stacks of the mappings handed to scale_sample_counts directly
ScaleKeys == {<<"a">>, <<"b">>, <<"c">>}

\* characters of the texts handed to parse_one_collapsed
Alphabet == {"a", " ", "1", "\n", "#"}
Texts(maxlen) == UNION {[1..n -> Alphabet] : n \in 0..maxlen}
AddComms == {<<>>, <<(<<"c">>)>>}

\* lines of the texts handed to parse_many_collapsed: well-formed ones, and ones
\* that miss the shape "<comm>-<pid>/<tid>;<raw-stack> <integer count>"
GoodLines ==
    { <<"c", "-", "1", "/", "1", ";", "s", " ", "1">>,
      <<"c", "-", "1", "/", "1", ";", "s", " ", "2">>,
      <<"c", "-", "1", "/", "2", ";", "t", " ", "1">>,
      <<"d", "-", "2", "/", "2", ";", "s", ";", "t", " ", "1">> }
BadLines ==
    { <<"c", "-", "1", "/", "1", ";", "s", " ", "x">>,     \* count is no integer
      <<"c", "-", "3", "/", "3", ";", "s", " ", "x">>,     \* count is no integer
      <<"c", "-", "1", "/", "1", ";", "s">>,               \* no count
      <<"c", "-", "1", "/", "1", " ", "1">>,               \* no stack
      <<"c", "1", "/", "1", ";", "s", " ", "1">>,          \* no "-" before the pid
      <<"c", "-", "x", "/", "1", ";", "s", " ", "1">>,     \* pid is no integer
      <<>> }                                                  \* empty line
LinePool == GoodLines \cup BadLines

RECURSIVE JoinLines(_)
JoinLines(ls) ==
    IF ls = <<>> THEN <<>>
    ELSE IF Len(ls) = 1 THEN ls[1]
    ELSE ls[1] \o <<"\n">> \o JoinLines(Tail(ls))

ManyTexts == {JoinLines(ls) : ls \in UNION {[1..n -> LinePool] : n \in 0..MaxLines}}

\* processes, stacks and metadata of the profiles handed to merge_profiles
PIDS == {1, 2}
RefStacks == {<<"m", ";", "n">>, <<"p">>}
CandStacks == {<<"x", ";", "m">>, <<"y">>}
ErrorStacks == {<<"E", ";", "u">>, <<"E", ";", "v">>}
Docs == {NoMetadata, {<<"lang", "py">>}, {<<"lang", "go">>}}

Profile(stacks, appid, app_metadata) ==
    [stacks |-> stacks, appid |-> appid, app_metadata |-> app_metadata]

\* a profile of the set, or none
Opt(profiles) == {<<>>} \cup {<<p>> : p \in profiles}

\* the pid -> profile mapping of the pids that have a profile
ProfileMap(choice) == [pid \in {q \in DOMAIN choice : choice[q] # <<>>} |-> choice[pid][1]]

Options(version, container_names, application_metadata_on, application_identifiers) ==
    [profile_api_version |-> version, container_names |-> container_names,
     application_metadata |-> application_metadata_on,
     application_identifiers |-> application_identifiers]

(***************************************************************************)
(* States before any call                                                  *)
(***************************************************************************)
IdleScale ==
    /\ sc_stacks = EmptyMap /\ sc_ratio = <<1, 1>> /\ sc_result = EmptyMap /\ sc_pc = "idle"

IdleOne ==
    /\ po_a = <<>> /\ po_b = <<>> /\ po_comm = <<>>
    /\ po_res_a = EmptyMap /\ po_res_b = EmptyMap /\ po_res_ab = EmptyMap /\ po_pc = "idle"

IdleMany ==
    /\ pm_text = <<>> /\ pm_results = EmptyMap /\ pm_bad_lines = <<>> /\ pm_pc = "idle"

IdlePipe ==
    /\ perf_pid_to_profiles = EmptyMap /\ process_profiles = EmptyMap
    /\ perf0 = EmptyMap /\ process0 = EmptyMap
    /\ enrichment_options = Options("v1", FALSE, FALSE, FALSE)
    /\ container_names_client = FALSE
    /\ application_metadata = <<>> /\ lines = <<>> /\ header = <<>>
    /\ enriched = EmptyMap /\ visited = {} /\ ratio = <<>> /\ client_calls = <<>>
    /\ result = "" /\ pc = "idle"

\* merge_profiles is entered with these arguments
PipeStart(perf, procs, options, has_client) ==
    /\ perf_pid_to_profiles = perf /\ process_profiles = procs
    /\ perf0 = perf /\ process0 = procs
    /\ enrichment_options = options
    /\ container_names_client = has_client
    /\ application_metadata = <<>> /\ lines = <<>> /\ header = <<>>
    /\ enriched = EmptyMap /\ visited = {} /\ ratio = <<>> /\ client_calls = <<>>
    /\ result = "" /\ pc = "merge"

(***************************************************************************)
(* scale_sample_counts on its own                                          *)
(***************************************************************************)
InitScale ==
    /\ sc_stacks \in Mappings(ScaleKeys, 0..MaxCount)
    /\ sc_ratio \in (0..MaxNum) \X (1..MaxDen)
    /\ sc_result = EmptyMap
    /\ sc_pc = "call"
    /\ IdleOne /\ IdleMany /\ IdlePipe

ScaleCall ==
    /\ sc_pc = "call"
    /\ \E ups \in [DOMAIN sc_stacks -> BOOLEAN] :
          sc_result' = ScaleSampleCounts(sc_stacks, sc_ratio, ups)
    /\ sc_pc' = "returned"
    /\ UNCHANGED <<sc_stacks, sc_ratio, one_vars, many_vars, pipe_vars>>

NextScale == ScaleCall

SpecScale == InitScale /\ [][NextScale]_vars

(***************************************************************************)
(* parse_one_collapsed on A, on B and on A + B                             *)
(***************************************************************************)
InitOne ==
    /\ po_a \in Texts(MaxLenA) /\ po_b \in Texts(MaxLenB) /\ po_comm \in AddComms
    /\ po_res_a = EmptyMap /\ po_res_b = EmptyMap /\ po_res_ab = EmptyMap
    /\ po_pc = "call"
    /\ IdleScale /\ IdleMany /\ IdlePipe

ParseOneCalls ==
    /\ po_pc = "call"
    /\ po_res_a' = ParseOneCollapsed(po_a, po_comm)
    /\ po_res_b' = ParseOneCollapsed(po_b, po_comm)
    /\ po_res_ab' = ParseOneCollapsed(po_a \o po_b, po_comm)
    /\ po_pc' = "returned"
    /\ UNCHANGED <<po_a, po_b, po_comm, scale_vars, many_vars, pipe_vars>>

NextOne == ParseOneCalls

SpecOne == InitOne /\ [][NextOne]_vars

(***************************************************************************)
(* parse_many_collapsed                                                    *)
(***************************************************************************)
InitMany ==
    /\ pm_text \in ManyTexts
    /\ pm_results = EmptyMap /\ pm_bad_lines = <<>>
    /\ pm_pc = "call"
    /\ IdleScale /\ IdleOne /\ IdlePipe

ParseManyCall ==
    /\ pm_pc = "call"
    /\ pm_results' = ParseManyCollapsed(pm_text).results
    /\ pm_bad_lines' = ParseManyCollapsed(pm_text).bad_lines
    /\ pm_pc' = "returned"
    /\ UNCHANGED <<pm_text, scale_vars, one_vars, pipe_vars>>

NextMany == ParseManyCall

SpecMany == InitMany /\ [][NextMany]_vars

(***************************************************************************)
(* merge_profiles, then concatenate_profiles                               *)
(***************************************************************************)
\* One iteration of the loop of merge_profiles.
MergeStep ==
    /\ pc = "merge"
    /\ \E pid \in (DOMAIN process_profiles) \ visited :
          /\ visited' = visited \cup {pid}
          /\ IF DOMAIN process_profiles[pid].stacks = {}
             THEN UNCHANGED <<perf_pid_to_profiles, process_profiles, ratio, result, pc>>
             ELSE \E ups \in [DOMAIN process_profiles[pid].stacks -> BOOLEAN] :
                     LET out == MergeOne(perf_pid_to_profiles, process_profiles, pid, ups)
                     IN  /\ perf_pid_to_profiles' = out.perf
                         /\ process_profiles' = out.procs
                         /\ ratio' = IF out.ratio = <<>> THEN ratio ELSE out.ratio
                         /\ result' = IF out.outcome = "ok" THEN result ELSE out.outcome
                         /\ pc' = IF out.outcome = "ok" THEN pc ELSE "failed"
    /\ UNCHANGED <<enrichment_options, container_names_client, application_metadata, lines,
                   header, enriched, client_calls, perf0, process0,
                   scale_vars, one_vars, many_vars>>

\* The loop is over: concatenate_profiles is called and sets up its locals.
ConcatenateStart ==
    /\ pc = "merge"
    /\ visited = DOMAIN process_profiles
    /\ lines' = <<>>
    /\ application_metadata' = <<NoMetadata>>
    /\ pc' = "concat"
    /\ UNCHANGED <<perf_pid_to_profiles, process_profiles, enrichment_options,
                   container_names_client, header, enriched, visited, ratio, client_calls,
                   result, perf0, process0, scale_vars, one_vars, many_vars>>

\* One iteration of the loop of concatenate_profiles: the process is enriched and
\* its stacks are finalized.
EnrichStep ==
    /\ pc = "concat"
    /\ \E pid \in (DOMAIN perf_pid_to_profiles) \ (DOMAIN enriched) :
          LET profile == perf_pid_to_profiles[pid]
              out == EnrichPidStacks(pid, profile, enrichment_options,
                                     container_names_client, application_metadata)
          IN  /\ application_metadata' = out.table
              /\ client_calls' = client_calls \o out.calls
              /\ enriched' = [q \in DOMAIN enriched \cup {pid} |->
                                IF q = pid THEN out.data ELSE enriched[q]]
              /\ lines' = lines \o FinalizedLines(pid, profile.stacks, DOMAIN profile.stacks,
                                                  enrichment_options, out.data)
    /\ UNCHANGED <<perf_pid_to_profiles, process_profiles, enrichment_options,
                   container_names_client, header, visited, ratio, result, pc,
                   perf0, process0, scale_vars, one_vars, many_vars>>

\* The header line is made and put first; the artifact is returned.
MakeProfileMetadataStep ==
    /\ pc = "concat"
    /\ DOMAIN enriched = DOMAIN perf_pid_to_profiles
    /\ LET out == MakeProfileMetadata(container_names_client, enrichment_options.container_names,
                                      application_metadata,
                                      enrichment_options.application_metadata, client_calls)
       IN  /\ header' = <<out.header>>
           /\ client_calls' = client_calls \o out.calls
    /\ result' = "artifact"
    /\ pc' = "done"
    /\ UNCHANGED <<perf_pid_to_profiles, process_profiles, enrichment_options,
                   container_names_client, application_metadata, lines, enriched, visited,
                   ratio, perf0, process0, scale_vars, one_vars, many_vars>>

Next == MergeStep \/ ConcatenateStart \/ EnrichStep \/ MakeProfileMetadataStep

(***************************************************************************)
(* Spec: the mappings of process 1 vary over every shape; process 2 is a   *)
(* second process with a plain, an empty, a zero-count or an error         *)
(* mapping.  The options are those of a current agent.                     *)
(***************************************************************************)
RefProfiles == {Profile(m, <<>>, NoMetadata) : m \in Mappings(RefStacks, 0..MaxSamples)}
CandProfiles ==
    {Profile(m, <<>>, NoMetadata) :
        m \in Mappings(CandStacks, 0..MaxSamples) \cup Mappings(ErrorStacks, 0..MaxSamples)}
OtherRefProfiles ==
    {Profile(m, <<>>, NoMetadata) : m \in {EmptyMap, (<<"p">> :> 1)}}
OtherCandProfiles ==
    {Profile(m, <<>>, NoMetadata) :
        m \in {EmptyMap, (<<"y">> :> 0), (<<"y">> :> 1), (<<"E", ";", "u">> :> 1)}}

Init ==
    /\ \E r1 \in Opt(RefProfiles), r2 \in Opt(OtherRefProfiles),
          c1 \in Opt(CandProfiles), c2 \in Opt(OtherCandProfiles) :
          PipeStart(ProfileMap(<<r1, r2>>), ProfileMap(<<c1, c2>>),
                    Options("v4", TRUE, TRUE, TRUE), TRUE)
    /\ IdleScale /\ IdleOne /\ IdleMany

Spec == Init /\ [][Next]_vars

(***************************************************************************)
(* SpecEnrich: the options, the client and the metadata documents vary;    *)
(* every mapping has one stack.  Process 1 has an application identifier.  *)
(***************************************************************************)
AppIdOf(pid) == IF pid = 1 THEN <<(<<"a", "p", "p">>)>> ELSE <<>>
DocRefProfiles(pid) == {Profile((<<"p">> :> 1), AppIdOf(pid), d) : d \in Docs}
DocCandProfiles(pid) ==
    {Profile((<<"y">> :> 1), AppIdOf(pid), d) : d \in Docs}
        \cup {Profile((<<"y">> :> 0), AppIdOf(pid), NoMetadata)}

InitEnrich ==
    /\ \E r1 \in Opt(DocRefProfiles(1)), r2 \in Opt(DocRefProfiles(2)),
          c1 \in Opt(DocCandProfiles(1)), c2 \in Opt(DocCandProfiles(2)),
          version \in {"v1", "v4"}, names_on \in BOOLEAN, metadata_on \in BOOLEAN,
          has_client \in BOOLEAN :
          PipeStart(ProfileMap(<<r1, r2>>), ProfileMap(<<c1, c2>>),
                    Options(version, names_on, metadata_on, TRUE), has_client)
    /\ IdleScale /\ IdleOne /\ IdleMany

SpecEnrich == InitEnrich /\ [][Next]_vars

(***************************************************************************)
(* Claims about scale_sample_counts (SpecScale)                            *)
(***************************************************************************)
\* the count a mapping has for a stack, 0 when the stack is not in it
CountOf(m, k) == IF k \in DOMAIN m THEN m[k] ELSE 0

Abs(x) == IF x < 0 THEN 0 - x ELSE x

\* C3: for the ratio r = p/q, every entry of the result is floor or ceil of
\* count * r (a dropped entry being 0), so the sum of the result is within
\* len(mapping) of r * sum(mapping).  Stated times q to stay in the integers.
C3_SumWithinLen ==
    sc_pc = "returned" =>
        LET p == sc_ratio[1]
            q == sc_ratio[2]
        IN  /\ \A s \in DOMAIN sc_stacks :
                  /\ CountOf(sc_result, s) * q > sc_stacks[s] * p - q
                  /\ CountOf(sc_result, s) * q < sc_stacks[s] * p + q
            /\ DOMAIN sc_result \subseteq DOMAIN sc_stacks
            /\ Abs(Total(sc_result) * q - p * Total(sc_stacks))
                   <= Cardinality(DOMAIN sc_stacks) * q

\* C3's case: a fractional ratio, one stack rounded up and another rounded down
C3_Witness ==
    /\ sc_pc = "returned"
    /\ \E s, t \in DOMAIN sc_stacks :
          /\ CountOf(sc_result, s) * sc_ratio[2] > sc_stacks[s] * sc_ratio[1]
          /\ CountOf(sc_result, t) * sc_ratio[2] < sc_stacks[t] * sc_ratio[1]

\* C4 as claimed: for every ratio, r = 1 included, the result has no entry whose
\* count is zero or negative.
C4_Original ==
    sc_pc = "returned" => \A s \in DOMAIN sc_result : sc_result[s] > 0

\* C4 as amended: for every ratio other than 1 the result has no entry whose count
\* is zero or negative; for the ratio 1 the result is the input mapping itself,
\* zero-count entries included.
C4_Amended ==
    sc_pc = "returned" =>
        IF sc_ratio[1] = sc_ratio[2]
        THEN sc_result = sc_stacks
        ELSE \A s \in DOMAIN sc_result : sc_result[s] > 0

\* C4's case: a ratio other than 1, an input with a zero-count entry and with an
\* entry that scales to zero, and an entry that is kept
C4_Witness ==
    /\ sc_pc = "returned"
    /\ sc_ratio[1] # sc_ratio[2]
    /\ \E s, t, u \in DOMAIN sc_stacks :
          /\ sc_stacks[s] = 0
          /\ sc_stacks[t] > 0 /\ t \notin DOMAIN sc_result
          /\ u \in DOMAIN sc_result

(***************************************************************************)
(* Claims about the parsers (SpecOne, SpecMany)                            *)
(***************************************************************************)
\* the per-signature sum of two results
CounterSum(a, b) == [k \in DOMAIN a \cup DOMAIN b |-> CountOf(a, k) + CountOf(b, k)]

\* C8 as claimed: for any texts A and B, parsing A + B gives, per stack signature,
\* the sum of parsing A and parsing B, and no other signature.
C8_Original ==
    po_pc = "returned" => po_res_ab = CounterSum(po_res_a, po_res_b)

\* C8 as amended: the same, for A empty or ending with a line break (so that the
\* last line of A and the first line of B stay two lines in A + B).
C8_Amended ==
    (po_pc = "returned" /\ (po_a = <<>> \/ po_a[Len(po_a)] = "\n"))
        => po_res_ab = CounterSum(po_res_a, po_res_b)

\* C8's case: A ends with a line break and a signature of A recurs in B
C8_Witness ==
    /\ po_pc = "returned"
    /\ po_a # <<>> /\ po_a[Len(po_a)] = "\n"
    /\ \E k \in DOMAIN po_res_a \cap DOMAIN po_res_b :
          po_res_a[k] > 0 /\ po_res_b[k] > 0 /\ po_res_ab[k] = po_res_a[k] + po_res_b[k]

DigitsOnly(s) == s # <<>> /\ \A i \in 1..Len(s) : s[i] \in Digits

\* the shape "<comm>-<pid>/<tid>;<raw-stack> <integer count>", read off the line
\* itself: the first ";" ends the identity, the last " " starts the count
WellFormedLine(line) ==
    \E i, j, k, l \in 1..Len(line) :
        /\ i < j /\ j < k /\ k < l
        /\ line[i] = "-" /\ line[j] = "/"
        /\ k = SetMin(Positions(line, ";") \cup {Len(line) + 1})
        /\ l = SetMax(Positions(line, " ") \cup {0})
        /\ DigitsOnly(SubSeq(line, i + 1, j - 1))
        /\ DigitsOnly(SubSeq(line, j + 1, k - 1))
        /\ LET count == SubSeq(line, l + 1, Len(line))
           IN  DigitsOnly(IF StartsWith(count, "-") THEN Tail(count) ELSE count)

MalformedLine(line) == ~WellFormedLine(line)

\* C10: every line that misses the shape is collected as a bad line and leaves the
\* result as it is: the result is that of the text without its malformed lines.
C10_MalformedLinesLeaveNoTrace ==
    pm_pc = "returned" =>
        /\ pm_bad_lines = SelectSeq(SplitLines(pm_text), MalformedLine)
        /\ pm_results =
              ParseManyCollapsed(JoinLines(SelectSeq(SplitLines(pm_text), WellFormedLine))).results

(***************************************************************************)
(* Claims about merge_profiles (Spec)                                      *)
(***************************************************************************)
\* the candidates that pass the non-empty filter of the loop
NonEmptyCandidates == {pid \in DOMAIN process0 : DOMAIN process0[pid].stacks # {}}

\* the processes of the artifact's stack lines
LinePids == {lines[i].pid : i \in 1..Len(lines)}

\* C1: a process with a non-empty candidate mapping and no reference profile has
\* no stack line in the artifact.
C1_CandidateOnlyDropped ==
    pc = "done" =>
        \A pid \in NonEmptyCandidates : pid \notin DOMAIN perf0 => pid \notin LinePids

\* C1's case: an artifact with lines, and a process with an error-stack candidate
\* and no reference profile
C1_Witness ==
    /\ pc = "done"
    /\ lines # <<>>
    /\ \E pid \in NonEmptyCandidates :
          pid \notin DOMAIN perf0 /\ IsErrorStack(process0[pid].stacks)

\* the error-attach result, entry by entry
IsAttached(got, reference, errors) ==
    /\ DOMAIN got = {e \o <<";">> \o r : e \in DOMAIN errors, r \in DOMAIN reference}
    /\ \A e \in DOMAIN errors, r \in DOMAIN reference :
          got[e \o <<";">> \o r] = reference[r]
    /\ Cardinality(DOMAIN got) = Cardinality(DOMAIN errors) * Cardinality(DOMAIN reference)
    /\ Total(got) = Total(reference) * Cardinality(DOMAIN errors)

\* the processes merged so far that are in both arguments, with an error stack as
\* candidate (pc = "failed" leaves the last one without a result)
MergedErrorPids ==
    {pid \in visited \cap DOMAIN perf0 :
        pc # "failed" /\ IsErrorStack(process0[pid].stacks)}

\* C2 as claimed: the result for such a process is the error-attach result, for
\* every reference mapping, one that is empty or sums to zero included.
C2_Original ==
    \A pid \in MergedErrorPids :
        IsAttached(perf_pid_to_profiles[pid].stacks, perf0[pid].stacks, process0[pid].stacks)

\* C2 as amended: it is the error-attach result for every reference mapping whose
\* counts sum to more than zero; for a reference mapping that is empty or sums to
\* zero the result is the empty mapping.
C2_Amended ==
    \A pid \in MergedErrorPids :
        IF Total(perf0[pid].stacks) > 0
        THEN IsAttached(perf_pid_to_profiles[pid].stacks, perf0[pid].stacks,
                        process0[pid].stacks)
        ELSE perf_pid_to_profiles[pid].stacks = EmptyMap

\* C2's case: two error-marker variants attached to two reference stacks
C2_Witness ==
    /\ pc = "done"
    /\ \E pid \in MergedErrorPids :
          /\ Cardinality(DOMAIN process0[pid].stacks) = 2
          /\ Cardinality(DOMAIN perf0[pid].stacks) = 2
          /\ Total(perf0[pid].stacks) > 0
          /\ Cardinality(DOMAIN perf_pid_to_profiles[pid].stacks) = 4

\* the candidates whose entries all have count zero
ZeroCandidates == {pid \in NonEmptyCandidates : Total(process0[pid].stacks) = 0}

\* C7: no division by zero is evaluated; merge_profiles fails, by its assertion,
\* exactly when some non-empty candidate has the total zero, and returns an
\* artifact otherwise.  Until then there is always a next step to take.
C7_AssertGuardsDivision ==
    /\ result # "ZeroDivisionError"
    /\ ratio # <<>> => ratio[1][2] > 0
    /\ pc = "failed" => (result = "AssertionError" /\ ZeroCandidates # {} /\ header = <<>>)
    /\ pc = "done" => (result = "artifact" /\ ZeroCandidates = {} /\ header # <<>>)
    /\ pc \in {"merge", "concat", "done", "failed"}
    /\ pc \in {"merge", "concat"} => ENABLED Next

\* C7's case: the merge fails on a zero-total candidate after another process was
\* scaled
C7_Witness ==
    /\ pc = "failed"
    /\ Cardinality(visited) = 2
    /\ ratio # <<>>

(***************************************************************************)
(* Claims about the enrichment (SpecEnrich)                                *)
(***************************************************************************)
NoTwoEqual(table) ==
    \A i, j \in 1..Len(table) : table[i] = table[j] => i = j

TableOk ==
    pc \in {"concat", "done"} =>
        /\ Len(application_metadata) >= 1
        /\ application_metadata[1] = NoMetadata
        /\ NoTwoEqual(application_metadata)

TableGrows ==
    pc = "concat" =>
        /\ Len(application_metadata') >= Len(application_metadata)
        /\ \A i \in 1..Len(application_metadata) :
              application_metadata'[i] = application_metadata[i]

\* C5: during a pass the table has the sentinel at index 0 and no two equal
\* entries, and a step only appends to it.
C5_TableDeduplicated == []TableOk /\ [][TableGrows]_vars

\* C5's case: two processes with the same metadata document were enriched, and
\* the table holds the sentinel and that document once
C5_Witness ==
    /\ pc = "done"
    /\ DOMAIN enriched = {1, 2}
    /\ perf_pid_to_profiles[1].app_metadata = perf_pid_to_profiles[2].app_metadata
    /\ perf_pid_to_profiles[1].app_metadata # NoMetadata
    /\ Len(application_metadata) = 2

\* the calls on the container-names client so far, by name
CallsNamed(name) == {i \in 1..Len(client_calls) : client_calls[i][1] = name}

ResetAfterLookups ==
    \A i \in CallsNamed("reset_cache"), j \in CallsNamed("get_container_name") : j < i

\* C6 as claimed: in every pass, whatever the option, the client and the protocol
\* version, reset_cache is issued exactly once, after every lookup.
C6_Original ==
    pc = "done" =>
        /\ Cardinality(CallsNamed("reset_cache")) = 1
        /\ ResetAfterLookups

\* C6 as amended: a pass that returns its artifact issues reset_cache exactly once
\* when there is a client and the container-names option is on, and never
\* otherwise; a merge that fails its assertion issues no call at all; a reset is
\* always after every lookup of the pass.
C6_Amended ==
    /\ ResetAfterLookups
    /\ pc = "done" =>
          Cardinality(CallsNamed("reset_cache")) =
              IF container_names_client /\ enrichment_options.container_names THEN 1 ELSE 0
    /\ pc # "done" => CallsNamed("reset_cache") = {}
    /\ pc = "failed" => client_calls = <<>>

\* C6's case: two lookups, then the reset
C6_Witness ==
    /\ pc = "done"
    /\ Cardinality(CallsNamed("get_container_name")) = 2
    /\ Cardinality(CallsNamed("reset_cache")) = 1

\* the table index of a process's metadata document
TableIndex(pid) ==
    CHOOSE i \in 0..(Len(application_metadata) - 1) :
        application_metadata[i + 1] = perf_pid_to_profiles[pid].app_metadata

\* C9: the prefix of an enriched process is "<idx>;" exactly when the version is
\* not v1 and the option is on, else empty, idx being the table index of its
\* document (0 without metadata, the same for equal documents); whatever the
\* options, the table holds the sentinel and the documents of the enriched
\* processes.
C9_ApplicationPrefix ==
    pc \in {"concat", "done"} =>
        /\ \A pid \in DOMAIN enriched :
              /\ InTable(application_metadata, perf_pid_to_profiles[pid].app_metadata)
              /\ perf_pid_to_profiles[pid].app_metadata = NoMetadata => TableIndex(pid) = 0
              /\ enriched[pid].application_prefix =
                    IF enrichment_options.profile_api_version # "v1"
                       /\ enrichment_options.application_metadata
                    THEN Decimal(TableIndex(pid)) \o <<";">>
                    ELSE <<>>
        /\ \A p, q \in DOMAIN enriched :
              perf_pid_to_profiles[p].app_metadata = perf_pid_to_profiles[q].app_metadata
                  => enriched[p].application_prefix = enriched[q].application_prefix
        /\ {application_metadata[i] : i \in 1..Len(application_metadata)} =
              {NoMetadata} \cup {perf_pid_to_profiles[pid].app_metadata : pid \in DOMAIN enriched}

\* C9's case: the prefix is emitted, two processes share the document at index 1
C9_Witness ==
    /\ pc = "done"
    /\ DOMAIN enriched = {1, 2}
    /\ enriched[1].application_prefix = <<"1", ";">>
    /\ enriched[2].application_prefix = <<"1", ";">>

====
